---- MODULE Spec2Model ----
(***************************************************************************)
(* Model of atm_idle.py: a command-line ATM whose accounts live in an      *)
(* in-memory dictionary that is written whole to accounts.json after every *)
(* successful mutation.                                                    *)
(*                                                                         *)
(* Text the user types (account numbers, PINs, names, amounts) is a        *)
(* sequence of one-character strings, so that str.strip, str.isdigit, len  *)
(* and float() are computed rather than assumed; the characters are those  *)
(* of Latin-1 (code points up to 255).  A string literal of the program    *)
(* that is only stored (a remark, a demo name) is kept as one piece of     *)
(* such a sequence.                                                        *)
(*                                                                         *)
(* A Python float is an IEEE 754 double, a record [nan, inf, neg, m, e]:   *)
(* NaN, an infinity, or the finite value (-1)^neg * m * 2^e, a signed zero *)
(* included.  float() gives the double nearest to the decimal typed, and   *)
(* += and -= the double nearest to the exact sum or difference (ties to    *)
(* the even mantissa), with subnormal values and overflow to an infinity:  *)
(* 0.1 + 0.2 is 0.30000000000000004.  json.dump writes a float by its      *)
(* shortest decimal that reads back as the same double.  Mantissas and     *)
(* the numbers typed are whole numbers of any size, kept as sequences of   *)
(* digits in base 2^27.                                                    *)
(*                                                                         *)
(* A step of the model is a piece of the program between two accesses to   *)
(* accounts.json: save_accounts takes two steps (the file is opened, which *)
(* empties it, and the dump is written), main's start takes one step for   *)
(* the load and two for each demo account, and the reload that follows a   *)
(* login attempt or a session is a step of its own.  The "time" field of a *)
(* ledger entry (datetime.now()) is not modelled.                          *)
(***************************************************************************)
EXTENDS Integers, Sequences, FiniteSets, TLC

\* ---------------------------------------------------------------- bounds
\* Largest total number of ledger entries, over all accounts, that a
\* successful operation may leave in an instance's dictionary.
MaxEntries == 4

\* Longest ledger, and largest limit below the default, that mini_statement
\* is called with as a function on its own.
MaxLen == 3
MaxLimit == 4

\* ------------------------------------------------------------------ text
\* The characters str.strip() removes (those of str.isspace()): tab, line
\* feed, vertical tab, form feed, carriage return, the separators 1C..1F,
\* the space, and the next-line and no-break-space characters.
Whitespace ==
  {"\t", "\n", "", "\f", "\r", "", "", "", "", " ", "", " "}

\* str.strip(): whitespace removed from both ends.
RECURSIVE LStrip(_)
LStrip(s) ==
  IF s # <<>> /\ Head(s) \in Whitespace THEN LStrip(Tail(s)) ELSE s

RECURSIVE RStrip(_)
RStrip(s) ==
  IF s # <<>> /\ s[Len(s)] \in Whitespace
    THEN RStrip(SubSeq(s, 1, Len(s) - 1)) ELSE s

Strip(s) == RStrip(LStrip(s))

\* The characters float() reads as decimal digits.
DecimalDigits == {"0", "1", "2", "3", "4", "5", "6", "7", "8", "9"}

\* The characters of which str.isdigit() is true: the decimal digits and
\* the superscript digits two, three and one.
Digits == DecimalDigits \cup {"²", "³", "¹"}

DigitVal(c) ==
  CASE c = "0" -> 0 [] c = "1" -> 1 [] c = "2" -> 2 [] c = "3" -> 3
    [] c = "4" -> 4 [] c = "5" -> 5 [] c = "6" -> 6 [] c = "7" -> 7
    [] c = "8" -> 8 [] c = "9" -> 9

\* str.isdigit(): non-empty and every character a digit.
IsDigit(s) == s # <<>> /\ \A k \in 1..Len(s) : s[k] \in Digits

\* ---------------------------------------------------- whole numbers
\* A whole number of any size (a mantissa, the digits typed at a prompt):
\* the sequence of its digits in base Limb, the least significant first and
\* the most significant not zero; <<>> is zero.
Limb == 134217728
LimbBits == 27

\* Body(v), with v evaluated once.
With(v, Body(_)) == CHOOSE r \in {Body(x) : x \in {v}} : TRUE

\* Step(hi, ... Step(lo + 1, Step(lo, s)) ...): a loop from lo to hi over
\* the state s, taken in two halves so that the evaluation stays shallow.
RECURSIVE Iter(_, _, _, _)
Iter(Step(_, _), lo, hi, s) ==
  IF lo > hi THEN s
  ELSE IF lo = hi THEN Step(lo, s)
  ELSE With(Iter(Step, lo, (lo + hi) \div 2, s),
            LAMBDA t : Iter(Step, (lo + hi) \div 2 + 1, hi, t))

\* The powers of two up to the base.
Pow2s == [n \in 0..LimbBits |-> 2 ^ n]

Pow2(n) == Pow2s[n]

\* a without the zero digits at its upper end.
NTrim(a) ==
  IF \A i \in 1..Len(a) : a[i] = 0 THEN <<>>
  ELSE SubSeq(a, 1, CHOOSE i \in 1..Len(a) :
                      a[i] # 0 /\ \A j \in (i + 1)..Len(a) : a[j] = 0)

RECURSIVE NFromInt(_)
NFromInt(n) == IF n = 0 THEN <<>> ELSE <<n % Limb>> \o NFromInt(n \div Limb)

LimbOf(a, i) == IF 1 <= i /\ i <= Len(a) THEN a[i] ELSE 0

\* a < b
NLessAt(a, b) ==
  \/ Len(a) < Len(b)
  \/ /\ Len(a) = Len(b)
     /\ \E k \in 1..Len(a) :
          a[k] < b[k] /\ \A j \in (k + 1)..Len(a) : a[j] = b[j]

NLess(a, b) == With(<<a, b>>, LAMBDA p : NLessAt(p[1], p[2]))

\* a + b, digit by digit with the carry c.
NAddAt(a, b) ==
  With(Iter(LAMBDA i, s :
              With(LimbOf(a, i) + LimbOf(b, i) + s.c,
                   LAMBDA x : [c |-> x \div Limb,
                               out |-> Append(s.out, x % Limb)]),
            1, IF Len(a) >= Len(b) THEN Len(a) ELSE Len(b),
            [c |-> 0, out |-> <<>>]),
       LAMBDA r : IF r.c = 0 THEN r.out ELSE Append(r.out, r.c))

NAdd(a, b) ==
  With(<<a, b>>,
       LAMBDA p : IF p[1] = <<>> THEN p[2]
                  ELSE IF p[2] = <<>> THEN p[1]
                  ELSE NAddAt(p[1], p[2]))

\* a - b for a >= b, digit by digit with the borrow c.
NSubAt(a, b) ==
  NTrim(Iter(LAMBDA i, s :
               With(a[i] - LimbOf(b, i) - s.c,
                    LAMBDA x : [c |-> IF x < 0 THEN 1 ELSE 0,
                                out |-> Append(s.out, x % Limb)]),
             1, Len(a), [c |-> 0, out |-> <<>>]).out)

NSub(a, b) == With(<<a, b>>, LAMBDA p : NSubAt(p[1], p[2]))

\* a * k for 0 <= k < 16, digit by digit with the carry c.
NMulAt(a, k) ==
  With(Iter(LAMBDA i, s :
              With(a[i] * k + s.c,
                   LAMBDA x : [c |-> x \div Limb,
                               out |-> Append(s.out, x % Limb)]),
            1, Len(a), [c |-> 0, out |-> <<>>]),
       LAMBDA r : IF r.c = 0 THEN r.out ELSE Append(r.out, r.c))

NMul(a, k) ==
  IF k = 0 THEN <<>> ELSE With(<<a, k>>, LAMBDA p : NMulAt(p[1], p[2]))

\* a divided by d, 0 < d < 16: the quotient q and the remainder r, from
\* the most significant digit down.
NDivAt(a, d) ==
  With(Iter(LAMBDA i, s :
              With(s.r * Limb + a[Len(a) + 1 - i],
                   LAMBDA x : [r |-> x % d, q |-> <<x \div d>> \o s.q]),
            1, Len(a), [r |-> 0, q |-> <<>>]),
       LAMBDA w : [q |-> NTrim(w.q), r |-> w.r])

NDiv(a, d) == With(<<a, d>>, LAMBDA p : NDivAt(p[1], p[2]))

\* a * 2^k: the digits move up by k \div LimbBits places, and each takes
\* the upper bits of the digit below it.
NShlAt(a, k) ==
  LET up == k \div LimbBits
      low == Pow2(LimbBits - (k % LimbBits))
  IN  NTrim([j \in 1..(Len(a) + up + 1) |->
               (LimbOf(a, j - up) % low) * Pow2(k % LimbBits)
                 + LimbOf(a, j - up - 1) \div low])

NShl(a, k) == With(<<a, k>>, LAMBDA p : NShlAt(p[1], p[2]))

\* a divided by 2^k: the quotient, and whether a bit was shifted out.
NShrAt(a, k) ==
  LET down == k \div LimbBits
      low == Pow2(k % LimbBits)
  IN  [q |-> NTrim([j \in 1..(Len(a) - down) |->
                      a[j + down] \div low
                        + (LimbOf(a, j + down + 1) % low)
                            * Pow2(LimbBits - (k % LimbBits))]),
       sticky |-> \/ \E j \in 1..Len(a) : j <= down /\ a[j] # 0
                  \/ LimbOf(a, down + 1) % low # 0]

NShr(a, k) == With(<<a, k>>, LAMBDA p : NShrAt(p[1], p[2]))

RECURSIVE BitLen(_)
BitLen(n) == IF n = 0 THEN 0 ELSE 1 + BitLen(n \div 2)

\* The number of binary digits of a.
NBits(a) ==
  IF a = <<>> THEN 0 ELSE LimbBits * (Len(a) - 1) + BitLen(a[Len(a)])

NOdd(a) == a # <<>> /\ a[1] % 2 = 1

RECURSIVE LowZeros(_)
LowZeros(n) == IF n % 2 = 1 THEN 0 ELSE 1 + LowZeros(n \div 2)

\* The number of zero bits at the low end of a, a not zero.
NLowZeros(a) ==
  LET i == CHOOSE i \in 1..Len(a) : a[i] # 0 /\ \A j \in 1..(i - 1) : a[j] = 0
  IN  LimbBits * (i - 1) + LowZeros(a[i])

\* a * k^n
NMulPow(a, k, n) == Iter(LAMBDA i, s : NMul(s, k), 1, n, a)

\* a divided by 10^n: the quotient, and whether a remainder was dropped.
NDivPow10(a, n) ==
  Iter(LAMBDA i, s :
         With(NDiv(s.q, 10),
              LAMBDA w : [q |-> w.q, sticky |-> s.sticky \/ w.r # 0]),
       1, n, [q |-> a, sticky |-> FALSE])

\* The number written by a sequence of decimal digits 0..9.
NFromDigits(s) ==
  Iter(LAMBDA i, acc : NAdd(NMul(acc, 10), NFromInt(s[i])), 1, Len(s), <<>>)

\* A sequence of decimal digits without its leading zeros, and without its
\* trailing ones.
DropFirstZeros(s) ==
  IF \A i \in 1..Len(s) : s[i] = 0 THEN <<>>
  ELSE SubSeq(s, CHOOSE i \in 1..Len(s) :
                   s[i] # 0 /\ \A j \in 1..(i - 1) : s[j] = 0, Len(s))

DropLastZeros(s) ==
  IF \A i \in 1..Len(s) : s[i] = 0 THEN <<>>
  ELSE SubSeq(s, 1, CHOOSE i \in 1..Len(s) :
                      s[i] # 0 /\ \A j \in (i + 1)..Len(s) : s[j] = 0)

\* The decimal digits of a, the most significant first; none for zero.  A
\* number of b binary digits has at most 31 * b / 100 + 1 decimal ones.
NToDigits(a) ==
  DropFirstZeros(Iter(LAMBDA i, s :
                        With(NDiv(s.q, 10),
                             LAMBDA w : [q |-> w.q, out |-> <<w.r>> \o s.out]),
                      1, (31 * NBits(a)) \div 100 + 1,
                      [q |-> a, out |-> <<>>]).out)

\* ---------------------------------------------------------------- floats
\* A Python float is an IEEE 754 double: NaN, an infinity, or the finite
\* value (-1)^neg * m * 2^e, where the whole number m is odd, or zero with
\* e = 0 (zero has a sign too).  A double has m < 2^53, e >= -1074 and a
\* value below 2^1024; the same record with any odd m and any e is an exact
\* binary fraction, which the operations round to a double.
NaN == [nan |-> TRUE, inf |-> FALSE, neg |-> FALSE, m |-> <<>>, e |-> 0]
Inf(neg) == [nan |-> FALSE, inf |-> TRUE, neg |-> neg, m |-> <<>>, e |-> 0]

MantBits == 53
MinExp == 0 - 1074
MaxBits == 1024

\* The binary fraction (-1)^neg * n * 2^e for any whole number n.
Dyadic(neg, n, e) ==
  With(n,
       LAMBDA w :
         IF w = <<>>
           THEN [nan |-> FALSE, inf |-> FALSE, neg |-> neg, m |-> <<>>,
                 e |-> 0]
           ELSE With(NLowZeros(w),
                     LAMBDA z : [nan |-> FALSE, inf |-> FALSE, neg |-> neg,
                                 m |-> NShr(w, z).q, e |-> e + z]))

\* The float of a whole number below 2^31.
F(n) == IF n < 0 THEN Dyadic(TRUE, NFromInt(0 - n), 0)
        ELSE Dyadic(FALSE, NFromInt(n), 0)

\* The double nearest to a binary fraction x, the one with the even
\* mantissa when two are as near (round-half-to-even): an infinity from
\* 2^1024 - 2^970 on, and steps of 2^-1074 below 2^-1022.  k is the number
\* of binary digits that m has too many.
RoundAt(x) ==
  IF x.m = <<>> THEN x
  ELSE IF NBits(x.m) + x.e > MaxBits THEN Inf(x.neg)
  ELSE With(IF NBits(x.m) - MantBits >= MinExp - x.e
              THEN NBits(x.m) - MantBits ELSE MinExp - x.e,
            LAMBDA k :
              IF k <= 0 THEN x
              ELSE With(NShr(x.m, k - 1),
                        LAMBDA s :
                          With(NShr(s.q, 1).q,
                               LAMBDA q :
                                 With(IF NOdd(s.q) /\ (s.sticky \/ NOdd(q))
                                        THEN NAdd(q, <<1>>) ELSE q,
                                      LAMBDA r :
                                        IF NBits(r) + x.e + k > MaxBits
                                          THEN Inf(x.neg)
                                          ELSE Dyadic(x.neg, r, x.e + k)))))

Round(x) == With(x, LAMBDA w : RoundAt(w))

FNeg(a) == IF a.nan THEN a ELSE [a EXCEPT !.neg = ~a.neg]

\* The exact sum of two finite values.  A zero sum is -0.0 only when both
\* terms are negative.
XAddAt(a, b) ==
  With(IF a.e <= b.e THEN a.e ELSE b.e,
       LAMBDA e :
         With(<<NShl(a.m, a.e - e), NShl(b.m, b.e - e)>>,
              LAMBDA t :
                IF a.neg = b.neg THEN Dyadic(a.neg, NAdd(t[1], t[2]), e)
                ELSE IF NLess(t[1], t[2])
                  THEN Dyadic(b.neg, NSub(t[2], t[1]), e)
                ELSE IF NLess(t[2], t[1])
                  THEN Dyadic(a.neg, NSub(t[1], t[2]), e)
                ELSE Dyadic(FALSE, <<>>, 0)))

XAdd(a, b) == With(<<a, b>>, LAMBDA p : XAddAt(p[1], p[2]))

XSub(a, b) == XAdd(a, FNeg(b))

\* a + b: NaN from NaN and from opposite infinities; otherwise the exact
\* sum rounded to a double.
FAdd(a, b) ==
  IF a.nan \/ b.nan THEN NaN
  ELSE IF a.inf /\ b.inf THEN (IF a.neg = b.neg THEN a ELSE NaN)
  ELSE IF a.inf THEN a
  ELSE IF b.inf THEN b
  ELSE Round(XAdd(a, b))

FSub(a, b) == FAdd(a, FNeg(b))

\* |a| < |b| for finite a and b: by the position of the first binary
\* digit, and by the digits when it is the same.
MagLess(a, b) ==
  IF b.m = <<>> THEN FALSE
  ELSE IF a.m = <<>> THEN TRUE
  ELSE IF NBits(a.m) + a.e # NBits(b.m) + b.e
    THEN NBits(a.m) + a.e < NBits(b.m) + b.e
  ELSE With(IF a.e <= b.e THEN a.e ELSE b.e,
            LAMBDA e : NLess(NShl(a.m, a.e - e), NShl(b.m, b.e - e)))

\* a < b for a and b other than NaN; the zeros are equal.
FLt(a, b) ==
  IF a.inf THEN a.neg /\ ~(b.inf /\ b.neg)
  ELSE IF b.inf THEN ~b.neg
  ELSE IF a.neg # b.neg THEN a.neg /\ (a.m # <<>> \/ b.m # <<>>)
  ELSE IF a.neg THEN MagLess(b, a)
  ELSE MagLess(a, b)

\* Every comparison with NaN is false.
FLe(a, b) == ~a.nan /\ ~b.nan /\ ~FLt(b, a)

FGt(a, b) == ~a.nan /\ ~b.nan /\ FLt(b, a)

\* The double nearest to (-1)^neg * n * 10^e10, n a whole number: for
\* e10 < 0 the quotient n * 2^s / 10^-e10 is taken to 59 binary digits or
\* more, with one more digit that tells whether a remainder was dropped.
ToDouble(neg, n, e10) ==
  IF e10 >= 0 THEN Round(Dyadic(neg, NMulPow(n, 10, e10), 0))
  ELSE With(60 - 4 * e10,
            LAMBDA s :
              With(NDivPow10(NShl(n, s), 0 - e10),
                   LAMBDA w :
                     Round(Dyadic(neg,
                                  NAdd(NMul(w.q, 2),
                                       IF w.sticky THEN <<1>> ELSE <<>>),
                                  0 - s - 1))))

\* float() compares the words inf, infinity and nan without regard to case.
Lower(c) ==
  CASE c = "A" -> "a" [] c = "F" -> "f" [] c = "I" -> "i" [] c = "N" -> "n"
    [] c = "T" -> "t" [] c = "Y" -> "y" [] OTHER -> c

\* A run of decimal digits in which single underscores may stand between
\* two digits.
DigitGroup(s) ==
  /\ s # <<>>
  /\ s[1] \in DecimalDigits
  /\ s[Len(s)] \in DecimalDigits
  /\ \A k \in 1..Len(s) :
       \/ s[k] \in DecimalDigits
       \/ s[k] = "_" /\ s[k - 1] # "_"

\* The digits of a digit group, as numbers 0..9.
DigitsOf(s) ==
  With(SelectSeq(s, LAMBDA c : c \in DecimalDigits),
       LAMBDA d : [k \in 1..Len(d) |-> DigitVal(d[k])])

\* The first position of s that holds a character of the set cs, or 0.
FirstOf(s, cs) ==
  IF \E k \in 1..Len(s) : s[k] \in cs
    THEN CHOOSE k \in 1..Len(s) :
           s[k] \in cs /\ \A j \in 1..(k - 1) : s[j] \notin cs
    ELSE 0

\* The exponent written by a sequence of digits; beyond ExpCap, which no
\* text that fits in memory tells from a larger exponent, ExpCap.
ExpCap == 100000000

ExpVal(s) ==
  Iter(LAMBDA i, acc : IF acc >= ExpCap THEN ExpCap ELSE 10 * acc + s[i],
       1, Len(s), 0)

\* Decimal orders of magnitude (the power of ten of the first digit) from
\* which float() gives an infinity, and down to which it gives zero.
InfOrder == 309
ZeroOrder == 0 - 325

\* float(text.strip()): an optional sign, then inf, infinity or nan in any
\* case, or a decimal number: digits with an optional point and an optional
\* exponent; anything else raises ValueError (ok = FALSE).  The number is
\* the double nearest to the decimal written.
ParseFloat(s) ==
  LET t == Strip(s)
      signed == t # <<>> /\ Head(t) \in {"-", "+"}
      neg == signed /\ Head(t) = "-"
      body == IF signed THEN Tail(t) ELSE t
      word == [k \in 1..Len(body) |-> Lower(body[k])]
      ePos == FirstOf(body, {"e", "E"})
      mant == IF ePos = 0 THEN body ELSE SubSeq(body, 1, ePos - 1)
      expo == IF ePos = 0 THEN <<>> ELSE SubSeq(body, ePos + 1, Len(body))
      expSigned == expo # <<>> /\ Head(expo) \in {"-", "+"}
      expDigits == IF expSigned THEN Tail(expo) ELSE expo
      dot == FirstOf(mant, {"."})
      whole == IF dot = 0 THEN mant ELSE SubSeq(mant, 1, dot - 1)
      part == IF dot = 0 THEN <<>> ELSE SubSeq(mant, dot + 1, Len(mant))
      number == /\ whole # <<>> \/ part # <<>>
                /\ whole = <<>> \/ DigitGroup(whole)
                /\ part = <<>> \/ DigitGroup(part)
                /\ ePos = 0 \/ DigitGroup(expDigits)
      e == IF expSigned /\ Head(expo) = "-"
             THEN 0 - ExpVal(DropFirstZeros(DigitsOf(expDigits)))
             ELSE ExpVal(DropFirstZeros(DigitsOf(expDigits)))
      all == DropFirstZeros(DigitsOf(whole) \o DigitsOf(part))
      digits == DropLastZeros(all)
      places == Len(DigitsOf(part)) - e
      order == Len(all) - 1 - places
  IN  IF word \in {<<"i", "n", "f">>,
                   <<"i", "n", "f", "i", "n", "i", "t", "y">>}
        THEN [ok |-> TRUE, val |-> Inf(neg)]
      ELSE IF word = <<"n", "a", "n">> THEN [ok |-> TRUE, val |-> NaN]
      ELSE IF ~number THEN [ok |-> FALSE, val |-> F(0)]
      ELSE IF digits = <<>>
        THEN [ok |-> TRUE, val |-> Dyadic(neg, <<>>, 0)]
      ELSE IF order >= InfOrder THEN [ok |-> TRUE, val |-> Inf(neg)]
      ELSE IF order <= ZeroOrder
        THEN [ok |-> TRUE, val |-> Dyadic(neg, <<>>, 0)]
      ELSE [ok |-> TRUE,
            val |-> ToDouble(neg, NFromDigits(digits),
                             Len(all) - Len(digits) - places)]

\* float.__repr__ of a finite double a other than zero: the shortest
\* sequence of decimal digits that float() reads back as a, the nearest to
\* the value when several are as short; the decimal point stands after the
\* first `point' digits (before them when point is not positive).
\* ReprTry tries n digits: the first n digits of the exact decimal
\* expansion (all, with its point), and the next number of n digits above.
ReprTry(a, all, point, n) ==
  With(NFromDigits(SubSeq(all, 1, n)),
       LAMBDA lo :
         With(<<ToDouble(a.neg, lo, point - n) = a,
                ToDouble(a.neg, NAdd(lo, <<1>>), point - n) = a,
                NToDigits(NAdd(lo, <<1>>))>>,
              LAMBDA c :
                LET rest == SubSeq(all, n + 1, Len(all))
                    half == <<5>> \o [j \in 1..(Len(rest) - 1) |-> 0]
                    above == \E k \in 1..Len(rest) :
                               /\ rest[k] > half[k]
                               /\ \A j \in 1..(k - 1) : rest[j] = half[j]
                    upper == above \/ (rest = half /\ all[n] % 2 = 1)
                IN  IF c[2] /\ (upper \/ ~c[1])
                      THEN [found |-> TRUE,
                            digits |-> DropLastZeros(SubSeq(c[3], 1, n)),
                            point |-> point + Len(c[3]) - n]
                    ELSE [found |-> c[1], digits |-> SubSeq(all, 1, n),
                          point |-> point]))

\* A double is told from every other by 17 digits.
ReprDigits == 17

ReprAt(a, all, point) ==
  Iter(LAMBDA n, s :
         IF s.found THEN s
         ELSE IF n >= Len(all)
           THEN [found |-> TRUE, digits |-> all, point |-> point]
         ELSE ReprTry(a, all, point, n),
       1, ReprDigits, [found |-> FALSE, digits |-> <<>>, point |-> 0])

Repr(a) ==
  With(IF a.e >= 0 THEN NToDigits(NShl(a.m, a.e))
       ELSE NToDigits(NMulPow(a.m, 5, 0 - a.e)),
       LAMBDA all :
         ReprAt(a, DropLastZeros(all),
                Len(all) + (IF a.e >= 0 THEN 0 ELSE a.e)))

\* ----------------------------------------------------------- persistence
\* accounts.json: absent, or present with a text that is empty (the file
\* has just been opened for writing), the dump of one dictionary ("whole",
\* data being that dictionary) or what two overlapping dumps leave
\* ("broken": the longer text's tail after the shorter text).
NoFile == [exists |-> FALSE, text |-> "empty", data |-> <<>>]

\* The empty dictionary.
EmptyAccounts == <<>>

\* load_accounts(): {} when the file is absent, else the parsed JSON; ok is
\* FALSE when json.load raises JSONDecodeError (no text, or a broken one).
\* The JSON round trip keeps string keys, strings, lists and floats (NaN
\* and the infinities too).
load_accounts(f) ==
  IF ~f.exists THEN [ok |-> TRUE, accounts |-> EmptyAccounts]
  ELSE IF f.text = "whole" THEN [ok |-> TRUE, accounts |-> f.data]
  ELSE [ok |-> FALSE, accounts |-> EmptyAccounts]

\* save_accounts, line 20: open(ACCOUNTS_FILE, "w") creates the file or
\* cuts it to no text.
Truncated == [exists |-> TRUE, text |-> "empty", data |-> <<>>]

\* save_accounts(accounts) run from its first line to its last with no
\* other writer in between: the file holds the dump of the whole mapping.
save_accounts(accts) == [exists |-> TRUE, text |-> "whole", data |-> accts]

\* ---- the text json.dump(accounts, f, indent=2) writes, by its length
\* The characters json.dump writes as they are: the printable ASCII
\* characters but the quotation mark and the backslash.  (The grave accent
\* is one of them and cannot be written in a string of this module.)
Plain ==
  {" ", "!", "#", "$", "%", "&", "'", "(", ")", "*", "+", ",", "-", ".",
   "/", "0", "1", "2", "3", "4", "5", "6", "7", "8", "9", ":", ";", "<",
   "=", ">", "?", "@", "A", "B", "C", "D", "E", "F", "G", "H", "I", "J",
   "K", "L", "M", "N", "O", "P", "Q", "R", "S", "T", "U", "V", "W", "X",
   "Y", "Z", "[", "]", "^", "_", "a", "b", "c", "d", "e", "f", "g",
   "h", "i", "j", "k", "l", "m", "n", "o", "p", "q", "r", "s", "t", "u",
   "v", "w", "x", "y", "z", "{", "|", "}", "~"}

\* The characters json.dump writes as a backslash and one character.
Escaped == {"\"", "\\", "\n", "\r", "\t", "\f", ""}

\* The length json.dump gives one piece of a string: a character as it is,
\* escaped in two characters, or as \uXXXX; a literal of the program (plain
\* ASCII) by its length.
JsonChar(c) ==
  IF Len(c) > 1 THEN Len(c)
  ELSE IF c \in Plain THEN 1
  ELSE IF c \in Escaped THEN 2
  ELSE 6

RECURSIVE JsonChars(_)
JsonChars(s) == IF s = <<>> THEN 0 ELSE JsonChar(Head(s)) + JsonChars(Tail(s))

\* A string between its quotation marks.
JsonString(s) == 2 + JsonChars(s)

\* float.__repr__ as json.dump uses it: NaN, Infinity, -Infinity, and for a
\* finite value the shortest digits, with a point (5000.0, 0.25) while the
\* point lies from 4 places before the digits to 16 places into them, and
\* with an exponent (1e-05, 2.5e-07) otherwise.
JsonFloat(a) ==
  IF a.nan THEN 3
  ELSE IF a.inf THEN (IF a.neg THEN 9 ELSE 8)
  ELSE IF a.m = <<>> THEN (IF a.neg THEN 4 ELSE 3)
  ELSE With(Repr(a),
            LAMBDA r :
              LET sign == IF a.neg THEN 1 ELSE 0
                  n == Len(r.digits)
                  point == r.point
                  exp == IF point >= 1 THEN point - 1 ELSE 1 - point
                  expDigits == IF exp < 100 THEN 2 ELSE 3
              IN  IF point > 16 \/ point <= 0 - 4
                    THEN sign + (IF n = 1 THEN 1 ELSE n + 1) + 2 + expDigits
                  ELSE IF point <= 0 THEN sign + 2 + (0 - point) + n
                  ELSE IF point >= n THEN sign + point + 2
                  ELSE sign + n + 1)

\* One ledger entry: the braces, the five keys with their indentation, the
\* 19 characters of the time, and the four values of the model.
JsonEntry(e) ==
  134 + (2 + Len(e.type)) + JsonFloat(e.amount) + JsonString(e.remark)
    + JsonFloat(e.balance)

RECURSIVE JsonEntries(_)
JsonEntries(txs) ==
  IF txs = <<>> THEN 0 ELSE JsonEntry(Head(txs)) + JsonEntries(Tail(txs))

\* The list of the entries: [] when there is none.
JsonList(txs) == IF txs = <<>> THEN 2 ELSE 6 + JsonEntries(txs)

RECURSIVE JsonAccounts(_, _)
JsonAccounts(accts, ids) ==
  IF ids = {} THEN 0
  ELSE LET k == CHOOSE x \in ids : TRUE
       IN  76 + JsonString(k) + JsonString(accts[k].name)
             + JsonString(accts[k].pin) + JsonFloat(accts[k].balance)
             + JsonList(accts[k].transactions)
             + JsonAccounts(accts, ids \ {k})

\* The number of characters of the dump of a dictionary.
JsonLen(accts) == 2 + JsonAccounts(accts, DOMAIN accts)

\* save_accounts, line 21 and the close of the file: the dump is written
\* from position 0 over whatever the file holds by then.  Over no text the
\* file is the dump.  Over the dump of a writer that opened the file later
\* and has written already, the file is the new dump when that is not the
\* shorter one, and otherwise the new dump followed by the end of the old
\* one, which is no JSON text.  (With two instances the text found is never
\* a broken one; the length of such a text is not kept, so both outcomes are
\* left open.)
Dump(f, accts) ==
  IF f.text = "empty" THEN {save_accounts(accts)}
  ELSE IF f.text = "whole"
    THEN IF JsonLen(f.data) <= JsonLen(accts)
           THEN {save_accounts(accts)}
           ELSE {[exists |-> TRUE, text |-> "broken", data |-> <<>>]}
  ELSE {save_accounts(accts),
        [exists |-> TRUE, text |-> "broken", data |-> <<>>]}

\* ------------------------------------------------------------- constants
\* The demo accounts of main and the remarks of the ledger entries.
Id1001 == <<"1", "0", "0", "1">>
Id1002 == <<"1", "0", "0", "2">>
NameAlice == <<"Alice">>
NameBob == <<"Bob">>
Pin1234 == <<"1", "2", "3", "4">>
Pin2345 == <<"2", "3", "4", "5">>

RemarkSetup == <<"Initial account setup">>
RemarkDeposit == <<"Cash deposit">>
RemarkWithdrawal == <<"Cash withdrawal">>
RemarkPin == <<"PIN updated">>
RemarkTo(to_acct) == <<"To ">> \o to_acct
RemarkFrom(acct_no) == <<"From ">> \o acct_no

\* ---------------------------------------------------------------- inputs
\* What the user may type at a prompt: text with blanks, tabs and line ends
\* around it, superscript digits, amounts with an exponent.
RawIds == {Id1001, <<"\t", "1", "0", "0", "2", " ">>, <<>>, <<"7">>}
RawPins == {Pin1234, <<" ", "2", "3", "4", "5", "\n">>, <<"1", "2">>,
            <<"²", "²", "²", "²">>}
\* The PIN prompt of Create Account.
RawNewPins == {<<" ", "2", "3", "4", "5", "\n">>, <<"1", "2">>}
RawNames == {<<"E", "v", "e">>}
RawAmounts == {<<"a", "b", "c">>, <<"0">>, <<"\t", "3", "e", "3", " ">>,
               <<".", "1">>, <<"n", "a", "n">>}
RawInitials == {<<>>, <<"a", "b", "c">>, <<"-", "3", "0", "0", "0">>}

\* ------------------------------------------------------- account helpers
\* accounts[acct_no] = record: a dictionary with one more (or one replaced) key.
Put(accts, acct_no, rec) ==
  [k \in DOMAIN accts \cup {acct_no} |-> IF k = acct_no THEN rec ELSE accts[k]]

\* add_transaction with the entry put in front of the list (insert(0, ...)
\* for append).
add_transaction_mut(accts, acct_no, tx_type, amount, remark) ==
  LET entry == [type |-> tx_type, amount |-> amount, remark |-> remark,
                balance |-> accts[acct_no].balance]
  IN  [accts EXCEPT ![acct_no].transactions = <<entry>> \o @]

\* add_transaction: the entry records the balance the account has NOW.
add_transaction(accts, acct_no, tx_type, amount, remark) ==
  LET entry == [type |-> tx_type, amount |-> amount, remark |-> remark,
                balance |-> accts[acct_no].balance]
  IN  [accts EXCEPT ![acct_no].transactions = Append(@, entry)]

Result(ok, accts, saved, msg) ==
  [ok |-> ok, accounts |-> accts, saved |-> saved, msg |-> msg]

\* create_account without line 33: the new account has no entry.
create_account_mut_noentry(accts, acct_no, name, pin, initial_balance) ==
  IF acct_no \in DOMAIN accts
    THEN Result(FALSE, accts, FALSE, "Account already exists.")
    ELSE LET a1 == Put(accts, acct_no,
                       [name |-> name, pin |-> pin,
                        balance |-> initial_balance, transactions |-> <<>>])
         IN  Result(TRUE, a1, TRUE, "Account created.")

\* create_account without the test of line 25: the account is replaced.
create_account_mut(accts, acct_no, name, pin, initial_balance) ==
  LET a1 == Put(accts, acct_no,
                [name |-> name, pin |-> pin,
                 balance |-> initial_balance, transactions |-> <<>>])
      a2 == add_transaction(a1, acct_no, "Account Created", F(0),
                            RemarkSetup)
  IN  Result(TRUE, a2, TRUE, "Account created.")

create_account(accts, acct_no, name, pin, initial_balance) ==
  IF acct_no \in DOMAIN accts
    THEN Result(FALSE, accts, FALSE, "Account already exists.")
    ELSE LET a1 == Put(accts, acct_no,
                       [name |-> name, pin |-> pin,
                        balance |-> initial_balance, transactions |-> <<>>])
             a2 == add_transaction(a1, acct_no, "Account Created", F(0),
                                   RemarkSetup)
         IN  Result(TRUE, a2, TRUE, "Account created.")

\* authenticate: None (ok = FALSE) or the account number.  pinRead tells
\* whether the PIN prompt was reached.
authenticate(accts, rawId, rawPin) ==
  LET acct_no == Strip(rawId)
      pin == Strip(rawPin)
  IN  IF acct_no \notin DOMAIN accts
        THEN [ok |-> FALSE, acct_no |-> acct_no, pinRead |-> FALSE,
              msg |-> "Account not found."]
      ELSE IF pin # accts[acct_no].pin
        THEN [ok |-> FALSE, acct_no |-> acct_no, pinRead |-> TRUE,
              msg |-> "Invalid PIN."]
      ELSE [ok |-> TRUE, acct_no |-> acct_no, pinRead |-> TRUE,
            msg |-> "Welcome"]

\* ------------------------------------------------------- ATM operations
\* An operation reads its amount once: given(p) is what the operation does
\* with the outcome p of float(input(...).strip()).
\* deposit with lines 74 and 75 exchanged: the entry is written before the
\* balance is raised.
deposit_mut(accts, acct_no, rawAmt) ==
  LET given(p) ==
        LET amt == p.val
            a1 == add_transaction(accts, acct_no, "Deposit", amt, RemarkDeposit)
            a2 == [a1 EXCEPT ![acct_no].balance = FAdd(@, amt)]
        IN  IF ~p.ok THEN Result(FALSE, accts, FALSE, "Invalid amount.")
            ELSE IF FLe(amt, F(0))
              THEN Result(FALSE, accts, FALSE, "Amount must be positive.")
            ELSE Result(TRUE, a2, TRUE, "Deposited")
  IN  CHOOSE r \in {given(p) : p \in {ParseFloat(rawAmt)}} : TRUE

deposit(accts, acct_no, rawAmt) ==
  LET given(p) ==
        LET amt == p.val
            a1 == [accts EXCEPT ![acct_no].balance = FAdd(@, amt)]
            a2 == add_transaction(a1, acct_no, "Deposit", amt, RemarkDeposit)
        IN  IF ~p.ok THEN Result(FALSE, accts, FALSE, "Invalid amount.")
            ELSE IF FLe(amt, F(0))
              THEN Result(FALSE, accts, FALSE, "Amount must be positive.")
            ELSE Result(TRUE, a2, TRUE, "Deposited")
  IN  CHOOSE r \in {given(p) : p \in {ParseFloat(rawAmt)}} : TRUE

\* withdraw without line 92: the balance is lowered and saved, and no entry
\* is appended.
withdraw_mut_noentry(accts, acct_no, rawAmt) ==
  LET given(p) ==
        LET amt == p.val
            a1 == [accts EXCEPT ![acct_no].balance = FSub(@, amt)]
        IN  IF ~p.ok THEN Result(FALSE, accts, FALSE, "Invalid amount.")
            ELSE IF FLe(amt, F(0))
              THEN Result(FALSE, accts, FALSE, "Amount must be positive.")
            ELSE IF FGt(amt, accts[acct_no].balance)
              THEN Result(FALSE, accts, FALSE, "Insufficient funds.")
            ELSE Result(TRUE, a1, TRUE, "Withdrew")
  IN  CHOOSE r \in {given(p) : p \in {ParseFloat(rawAmt)}} : TRUE

withdraw(accts, acct_no, rawAmt) ==
  LET given(p) ==
        LET amt == p.val
            a1 == [accts EXCEPT ![acct_no].balance = FSub(@, amt)]
            a2 == add_transaction(a1, acct_no, "Withdrawal", amt,
                                  RemarkWithdrawal)
        IN  IF ~p.ok THEN Result(FALSE, accts, FALSE, "Invalid amount.")
            ELSE IF FLe(amt, F(0))
              THEN Result(FALSE, accts, FALSE, "Amount must be positive.")
            ELSE IF FGt(amt, accts[acct_no].balance)
              THEN Result(FALSE, accts, FALSE, "Insufficient funds.")
            ELSE Result(TRUE, a2, TRUE, "Withdrew")
  IN  CHOOSE r \in {given(p) : p \in {ParseFloat(rawAmt)}} : TRUE

\* transfer without line 115: what is saved has the Transfer Out entry and
\* no Transfer In entry.
transfer_mut_noin(accts, acct_no, rawTo, rawAmt) ==
  LET to_acct == Strip(rawTo)
      given(p) ==
        LET amt == p.val
            a1 == [accts EXCEPT ![acct_no].balance = FSub(@, amt)]
            a2 == [a1 EXCEPT ![to_acct].balance = FAdd(@, amt)]
            a3 == add_transaction(a2, acct_no, "Transfer Out", amt,
                                  RemarkTo(to_acct))
        IN  IF to_acct \notin DOMAIN accts
              THEN Result(FALSE, accts, FALSE,
                          "Destination account does not exist.")
            ELSE IF ~p.ok THEN Result(FALSE, accts, FALSE, "Invalid amount.")
            ELSE IF FLe(amt, F(0))
              THEN Result(FALSE, accts, FALSE, "Amount must be positive.")
            ELSE IF FGt(amt, accts[acct_no].balance)
              THEN Result(FALSE, accts, FALSE, "Insufficient funds.")
            ELSE Result(TRUE, a3, TRUE, "Transferred")
  IN  CHOOSE r \in {given(p) : p \in {ParseFloat(rawAmt)}} : TRUE

\* transfer without line 113: the destination is never credited.
transfer_mut(accts, acct_no, rawTo, rawAmt) ==
  LET to_acct == Strip(rawTo)
      given(p) ==
        LET amt == p.val
            a1 == [accts EXCEPT ![acct_no].balance = FSub(@, amt)]
            a3 == add_transaction(a1, acct_no, "Transfer Out", amt,
                                  RemarkTo(to_acct))
            a4 == add_transaction(a3, to_acct, "Transfer In", amt,
                                  RemarkFrom(acct_no))
        IN  IF to_acct \notin DOMAIN accts
              THEN Result(FALSE, accts, FALSE,
                          "Destination account does not exist.")
            ELSE IF ~p.ok THEN Result(FALSE, accts, FALSE, "Invalid amount.")
            ELSE IF FLe(amt, F(0))
              THEN Result(FALSE, accts, FALSE, "Amount must be positive.")
            ELSE IF FGt(amt, accts[acct_no].balance)
              THEN Result(FALSE, accts, FALSE, "Insufficient funds.")
            ELSE Result(TRUE, a4, TRUE, "Transferred")
  IN  CHOOSE r \in {given(p) : p \in {ParseFloat(rawAmt)}} : TRUE

\* The destination is looked up before the amount is asked for.
transfer(accts, acct_no, rawTo, rawAmt) ==
  LET to_acct == Strip(rawTo)
      given(p) ==
        LET amt == p.val
            a1 == [accts EXCEPT ![acct_no].balance = FSub(@, amt)]
            a2 == [a1 EXCEPT ![to_acct].balance = FAdd(@, amt)]
            a3 == add_transaction(a2, acct_no, "Transfer Out", amt,
                                  RemarkTo(to_acct))
            a4 == add_transaction(a3, to_acct, "Transfer In", amt,
                                  RemarkFrom(acct_no))
        IN  IF to_acct \notin DOMAIN accts
              THEN Result(FALSE, accts, FALSE,
                          "Destination account does not exist.")
            ELSE IF ~p.ok THEN Result(FALSE, accts, FALSE, "Invalid amount.")
            ELSE IF FLe(amt, F(0))
              THEN Result(FALSE, accts, FALSE, "Amount must be positive.")
            ELSE IF FGt(amt, accts[acct_no].balance)
              THEN Result(FALSE, accts, FALSE, "Insufficient funds.")
            ELSE Result(TRUE, a4, TRUE, "Transferred")
  IN  CHOOSE r \in {given(p) : p \in {ParseFloat(rawAmt)}} : TRUE

\* seq[-limit:] of Python.
SliceLast(txs, limit) ==
  LET L == Len(txs)
      start == IF limit > 0 THEN (IF L - limit > 0 THEN L - limit ELSE 0)
               ELSE (IF 0 - limit < L THEN 0 - limit ELSE L)
  IN  SubSeq(txs, start + 1, L)

DefaultLimit == 10

\* mini_statement: the printed entries, or the empty-result message.
mini_statement(accts, acct_no, limit) ==
  LET txs == SliceLast(accts[acct_no].transactions, limit)
  IN  IF txs = <<>> THEN [out |-> <<>>, msg |-> "No transactions yet."]
      ELSE [out |-> txs, msg |-> "Last transactions"]

\* change_pin with line 141 storing the new PIN in every account.
change_pin_mut_all(accts, acct_no, rawOld, rawNew, rawConfirm) ==
  LET old == Strip(rawOld)
      new == Strip(rawNew)
      confirm == Strip(rawConfirm)
      a1 == [k \in DOMAIN accts |-> [accts[k] EXCEPT !.pin = new]]
      a2 == add_transaction(a1, acct_no, "PIN Change", F(0), RemarkPin)
  IN  IF old # accts[acct_no].pin
        THEN Result(FALSE, accts, FALSE, "Current PIN incorrect.")
      ELSE IF new # confirm THEN Result(FALSE, accts, FALSE, "PIN mismatch.")
      ELSE IF ~IsDigit(new) \/ Len(new) < 4
        THEN Result(FALSE, accts, FALSE,
                    "PIN must be numeric and at least 4 digits.")
      ELSE Result(TRUE, a2, TRUE, "PIN changed successfully.")

\* change_pin without the save_accounts of line 143.
change_pin_mut_nosave(accts, acct_no, rawOld, rawNew, rawConfirm) ==
  LET old == Strip(rawOld)
      new == Strip(rawNew)
      confirm == Strip(rawConfirm)
      a1 == [accts EXCEPT ![acct_no].pin = new]
      a2 == add_transaction(a1, acct_no, "PIN Change", F(0), RemarkPin)
  IN  IF old # accts[acct_no].pin
        THEN Result(FALSE, accts, FALSE, "Current PIN incorrect.")
      ELSE IF new # confirm THEN Result(FALSE, accts, FALSE, "PIN mismatch.")
      ELSE IF ~IsDigit(new) \/ Len(new) < 4
        THEN Result(FALSE, accts, FALSE,
                    "PIN must be numeric and at least 4 digits.")
      ELSE Result(TRUE, a2, FALSE, "PIN changed successfully.")

\* change_pin: the three prompts are read in order, each check returning
\* before the next prompt.
change_pin(accts, acct_no, rawOld, rawNew, rawConfirm) ==
  LET old == Strip(rawOld)
      new == Strip(rawNew)
      confirm == Strip(rawConfirm)
      a1 == [accts EXCEPT ![acct_no].pin = new]
      a2 == add_transaction(a1, acct_no, "PIN Change", F(0), RemarkPin)
  IN  IF old # accts[acct_no].pin
        THEN Result(FALSE, accts, FALSE, "Current PIN incorrect.")
      ELSE IF new # confirm THEN Result(FALSE, accts, FALSE, "PIN mismatch.")
      ELSE IF ~IsDigit(new) \/ Len(new) < 4
        THEN Result(FALSE, accts, FALSE,
                    "PIN must be numeric and at least 4 digits.")
      ELSE Result(TRUE, a2, TRUE, "PIN changed successfully.")

\* ----------------------------------------------------------------- state
\* Program instances that may run against the one accounts.json.
Instances == {1, 2}

\* atm_menu's acct_no while no session is open.
NoSession == <<"None">>

VARIABLES
  file,      \* accounts.json: [exists, text, data]
  accounts,  \* accounts[i]: the dictionary held by instance i
  pc,        \* pc[i]: "start" (before main), "demo1" and "demo2" (before
             \*        main's two create_account calls), "top" (main's
             \*        menu), "menu" (inside atm_menu), "saving" (inside
             \*        save_accounts, the file open), "reload" (before
             \*        line 197), "done" (main returned), "crashed" (main
             \*        ended by an exception)
  session,   \* session[i]: the account number atm_menu was entered with
  saving,    \* saving[i]: the operation whose save_accounts is running,
             \*        what it prints after the save, where it returns to
  last       \* the handler that ran last: instance, name, message printed,
             \* whether save_accounts has run, values printed

vars == <<file, accounts, pc, session, saving, last>>

Ran(i, op, msg, saved, out) ==
  [inst |-> i, op |-> op, msg |-> msg, saved |-> saved, out |-> out]

\* No save_accounts is running.
NoSave == [op |-> "", msg |-> "", ret |-> ""]

RECURSIVE EntriesOf(_, _)
EntriesOf(accts, ids) ==
  IF ids = {} THEN 0
  ELSE LET k == CHOOSE x \in ids : TRUE
       IN  Len(accts[k].transactions) + EntriesOf(accts, ids \ {k})

\* Total number of ledger entries in a dictionary.
Entries(accts) == EntriesOf(accts, DOMAIN accts)

\* A successful operation is explored only while the ledgers stay in bound.
InBound(r) == r.saved => Entries(r.accounts) <= MaxEntries

Init ==
  /\ file = NoFile
  /\ accounts = [i \in Instances |-> EmptyAccounts]
  /\ pc = [i \in Instances |-> "start"]
  /\ session = [i \in Instances |-> NoSession]
  /\ saving = [i \in Instances |-> NoSave]
  /\ last = Ran(0, "init", "", FALSE, <<>>)

\* What every operation does with the result r of its function.  A failed
\* operation prints its message and returns.  A successful one has changed
\* the dictionary and then calls save_accounts, which opens the file for
\* writing (line 20): the file has no text until the dump is written.
Apply(i, op, result, ret) ==
  \E r \in {result} :
    /\ InBound(r)
    /\ accounts' = [accounts EXCEPT ![i] = r.accounts]
    /\ IF r.saved
         THEN /\ file' = Truncated
              /\ pc' = [pc EXCEPT ![i] = "saving"]
              /\ saving' = [saving EXCEPT
                              ![i] = [op |-> op, msg |-> r.msg, ret |-> ret]]
              /\ last' = Ran(i, op, "", FALSE, <<>>)
         ELSE /\ last' = Ran(i, op, r.msg, FALSE, <<>>)
              /\ UNCHANGED <<file, pc, saving>>
    /\ UNCHANGED session

\* save_accounts, line 21, and what follows it in the operation: the dump is
\* written, the operation prints its message and returns.
Saved(i) ==
  /\ pc[i] = "saving"
  /\ file' \in Dump(file, accounts[i])
  /\ pc' = [pc EXCEPT ![i] = saving[i].ret]
  /\ saving' = [saving EXCEPT ![i] = NoSave]
  /\ last' = Ran(i, saving[i].op, saving[i].msg, TRUE, <<>>)
  /\ UNCHANGED <<accounts, session>>

\* main, lines 178-180: load; an empty dictionary leads to the creation of
\* the demo accounts; a file that is no JSON text ends main.
Start(i) ==
  /\ pc[i] = "start"
  /\ LET loaded == load_accounts(file)
         empty == DOMAIN loaded.accounts = {}
     IN  IF ~loaded.ok
           THEN /\ pc' = [pc EXCEPT ![i] = "crashed"]
                /\ last' = Ran(i, "start", "JSONDecodeError", FALSE, <<>>)
                /\ UNCHANGED accounts
           ELSE /\ accounts' = [accounts EXCEPT ![i] = loaded.accounts]
                /\ pc' = [pc EXCEPT ![i] = IF empty THEN "demo1" ELSE "top"]
                /\ last' =
                     Ran(i, "start",
                         IF empty
                           THEN "No accounts found. Creating demo accounts..."
                           ELSE "",
                         FALSE, <<>>)
  /\ UNCHANGED <<file, session, saving>>

\* main, line 181: the first demo account; its result is not printed.
Demo1(i) ==
  /\ pc[i] = "demo1"
  /\ LET r == create_account(accounts[i], Id1001, NameAlice, Pin1234, F(5000))
     IN  Apply(i, "demo1", [r EXCEPT !.msg = ""], "demo2")

\* main, lines 182-185: the second demo account, and the list of the two.
Demo2(i) ==
  /\ pc[i] = "demo2"
  /\ LET r == create_account(accounts[i], Id1002, NameBob, Pin2345, F(3000))
     IN  Apply(i, "demo2", [r EXCEPT !.msg = "Demo accounts created:"], "top")

\* main, action "1": authenticate; atm_menu is entered when the returned
\* account number is truthy; otherwise main goes on to the reload of line
\* 197.
Login(i, rawId, rawPin) ==
  /\ pc[i] = "top"
  /\ LET r == authenticate(accounts[i], rawId, rawPin)
         enter == r.ok /\ r.acct_no # <<>>
     IN  /\ last' = Ran(i, "login", r.msg, FALSE, <<>>)
         /\ IF enter
              THEN /\ pc' = [pc EXCEPT ![i] = "menu"]
                   /\ session' = [session EXCEPT ![i] = r.acct_no]
              ELSE /\ pc' = [pc EXCEPT ![i] = "reload"]
                   /\ UNCHANGED session
  /\ UNCHANGED <<file, accounts, saving>>

\* main, line 197, after authenticate failed or atm_menu returned: the
\* dictionary is replaced by what the file holds; a file that is no JSON
\* text ends main.
Reload(i) ==
  /\ pc[i] = "reload"
  /\ LET loaded == load_accounts(file)
     IN  IF ~loaded.ok
           THEN /\ pc' = [pc EXCEPT ![i] = "crashed"]
                /\ last' = Ran(i, "reload", "JSONDecodeError", FALSE, <<>>)
                /\ UNCHANGED accounts
           ELSE /\ accounts' = [accounts EXCEPT ![i] = loaded.accounts]
                /\ pc' = [pc EXCEPT ![i] = "top"]
                /\ last' = Ran(i, "reload", "", FALSE, <<>>)
  /\ UNCHANGED <<file, session, saving>>

\* float(input(...).strip() or "0"), ValueError giving 0.0 (lines 202-205).
ParseInitial(rawInit) ==
  LET text == IF Strip(rawInit) = <<>> THEN <<"0">> ELSE Strip(rawInit)
      p == ParseFloat(text)
  IN  IF p.ok THEN p.val ELSE F(0)

\* main, action "2": the four prompts, then create_account.
Create(i, rawId, rawName, rawPin, rawInit) ==
  /\ pc[i] = "top"
  /\ Apply(i, "create",
           create_account(accounts[i], Strip(rawId), Strip(rawName),
                          Strip(rawPin), ParseInitial(rawInit)),
           "top")

\* main, action "3".
Exit(i) ==
  /\ pc[i] = "top"
  /\ pc' = [pc EXCEPT ![i] = "done"]
  /\ last' = Ran(i, "exit", "Exiting. Goodbye.", FALSE, <<>>)
  /\ UNCHANGED <<file, accounts, session, saving>>

\* main, any other selection.
InvalidSelection(i) ==
  /\ pc[i] = "top"
  /\ last' = Ran(i, "invalid_selection", "Invalid selection.", FALSE, <<>>)
  /\ UNCHANGED <<file, accounts, pc, session, saving>>

CheckBalance(i) ==
  /\ pc[i] = "menu"
  /\ last' = Ran(i, "check_balance", "Your current balance", FALSE,
                 <<accounts[i][session[i]].balance>>)
  /\ UNCHANGED <<file, accounts, pc, session, saving>>

\* deposit run on a dictionary read from the file just before (a reload
\* that atm_menu does not do).
Deposit_mut(i, rawAmt) ==
  /\ pc[i] = "menu"
  /\ load_accounts(file).ok
  /\ Apply(i, "deposit",
           deposit(load_accounts(file).accounts, session[i], rawAmt), "menu")

Deposit(i, rawAmt) ==
  /\ pc[i] = "menu"
  /\ Apply(i, "deposit", deposit(accounts[i], session[i], rawAmt), "menu")

Withdraw(i, rawAmt) ==
  /\ pc[i] = "menu"
  /\ Apply(i, "withdraw", withdraw(accounts[i], session[i], rawAmt), "menu")

Transfer(i, rawTo, rawAmt) ==
  /\ pc[i] = "menu"
  /\ Apply(i, "transfer", transfer(accounts[i], session[i], rawTo, rawAmt),
           "menu")

\* mini_statement called with a limit: what it prints, and nothing else.
MiniStatementLimit(i, limit) ==
  /\ pc[i] = "menu"
  /\ LET r == mini_statement(accounts[i], session[i], limit)
     IN  last' = Ran(i, "mini_statement", r.msg, FALSE, r.out)
  /\ UNCHANGED <<file, accounts, pc, session, saving>>

\* atm_menu, choice "5": the limit is left at its default.
MiniStatement(i) == MiniStatementLimit(i, DefaultLimit)

ChangePin(i, rawOld, rawNew, rawConfirm) ==
  /\ pc[i] = "menu"
  /\ Apply(i, "change_pin",
           change_pin(accounts[i], session[i], rawOld, rawNew, rawConfirm),
           "menu")

\* atm_menu, choice "7": the message, the sleep of line 172, and the return
\* to main, which has the reload of line 197 still to do.
Logout(i) ==
  /\ pc[i] = "menu"
  /\ pc' = [pc EXCEPT ![i] = "reload"]
  /\ session' = [session EXCEPT ![i] = NoSession]
  /\ last' = Ran(i, "logout", "Logging out...", FALSE, <<>>)
  /\ UNCHANGED <<file, accounts, saving>>

\* atm_menu, any other choice.
InvalidChoice(i) ==
  /\ pc[i] = "menu"
  /\ last' = Ran(i, "invalid_choice", "Invalid choice. Try again.", FALSE,
                 <<>>)
  /\ UNCHANGED <<file, accounts, pc, session, saving>>

\* A prompt that the handler returns before reaching reads nothing: the
\* inputs of such a prompt are not enumerated.
Unread == {<<>>}

\* One step of instance i: a handler run on whatever the user types, up to
\* its return or up to the opening of the file by save_accounts; the rest of
\* a save; the start of main; the reload of line 197.
Step(i) ==
  \/ Start(i)
  \/ Demo1(i)
  \/ Demo2(i)
  \/ Saved(i)
  \/ \E rawId \in RawIds :
       \E rawPin \in IF Strip(rawId) \in DOMAIN accounts[i]
                       THEN RawPins ELSE Unread :
         Login(i, rawId, rawPin)
  \/ Reload(i)
  \/ \E rawId \in RawIds, rawName \in RawNames, rawPin \in RawNewPins,
        rawInit \in RawInitials : Create(i, rawId, rawName, rawPin, rawInit)
  \/ Exit(i)
  \/ InvalidSelection(i)
  \/ CheckBalance(i)
  \/ \E rawAmt \in RawAmounts : Deposit(i, rawAmt)
  \/ \E rawAmt \in RawAmounts : Withdraw(i, rawAmt)
  \/ \E rawTo \in RawIds :
       \E rawAmt \in IF Strip(rawTo) \in DOMAIN accounts[i]
                       THEN RawAmounts ELSE Unread :
         Transfer(i, rawTo, rawAmt)
  \/ MiniStatement(i)
  \/ \E rawOld \in RawPins :
       \E rawNew, rawConfirm \in
            IF pc[i] = "menu" /\ Strip(rawOld) = accounts[i][session[i]].pin
              THEN RawPins ELSE Unread :
         ChangePin(i, rawOld, rawNew, rawConfirm)
  \/ Logout(i)
  \/ InvalidChoice(i)

\* The program as the specification describes it: one instance.
Next == Step(1)

Spec == Init /\ [][Next]_vars

\* ------------------------------------------------ two running instances
\* Two runs of the program against the one accounts.json.  The steps of the
\* two runs interleave where the code lets them: between the lines of main
\* that read or write the file, between the opening of the file and the
\* dump inside save_accounts, and between the end of atm_menu and the
\* reload.  The users of both runs log in to the demo accounts, deposit,
\* withdraw, log out and exit.
SharedIds == {Id1001, <<"\t", "1", "0", "0", "2", " ">>}
SharedPins == {Pin1234, <<" ", "2", "3", "4", "5", "\n">>}
SharedAmounts == {<<"0">>, <<"\t", "3", "e", "3", " ">>}

StepShared(i) ==
  \/ Start(i)
  \/ Demo1(i)
  \/ Demo2(i)
  \/ Saved(i)
  \/ \E rawId \in SharedIds, rawPin \in SharedPins : Login(i, rawId, rawPin)
  \/ Reload(i)
  \/ \E rawAmt \in SharedAmounts : Deposit(i, rawAmt)
  \/ \E rawAmt \in SharedAmounts : Withdraw(i, rawAmt)
  \/ Logout(i)
  \/ Exit(i)

NextShared == \E i \in Instances : StepShared(i)

SpecShared == Init /\ [][NextShared]_vars

\* ------------------------------------------- mini_statement as a function
\* mini_statement(accounts, acct_no, limit) on its own: the dictionary holds
\* one account with any ledger of up to MaxLen entries (the ledger of an
\* accounts.json is whatever list the file holds), and the function is
\* called with any limit N >= 0.
Limits == (0..MaxLimit) \cup {DefaultLimit}

StatementEntries ==
  {[type |-> "Account Created", amount |-> F(0), remark |-> RemarkSetup,
    balance |-> F(5000)],
   [type |-> "Deposit", amount |-> F(3000), remark |-> RemarkDeposit,
    balance |-> F(8000)],
   [type |-> "Withdrawal", amount |-> F(3000), remark |-> RemarkWithdrawal,
    balance |-> F(5000)]}

StatementLedgers == UNION {[1..n -> StatementEntries] : n \in 0..MaxLen}

InitStatement ==
  \E txs \in StatementLedgers :
    LET accts == Put(EmptyAccounts, Id1001,
                     [name |-> NameAlice, pin |-> Pin1234,
                      balance |-> F(5000), transactions |-> txs])
    IN  /\ file = save_accounts(accts)
        /\ accounts = [i \in Instances |-> accts]
        /\ pc = [i \in Instances |-> "menu"]
        /\ session = [i \in Instances |-> Id1001]
        /\ saving = [i \in Instances |-> NoSave]
        /\ last = Ran(0, "init", "", FALSE, <<>>)

NextStatement == \E limit \in Limits : MiniStatementLimit(1, limit)

SpecStatement == InitStatement /\ [][NextStatement]_vars

\* ================================================================ claims
\* A claim about an operation is stated of the result the operation's
\* function returns in a reachable state, for every input of the input
\* sets: the result is what the handler's action installs (the dictionary
\* becomes r.accounts, and the file is rewritten exactly when r.saved).
Bal(accts, a) == accts[a].balance
Ledger(accts, a) == accts[a].transactions

IsPrefix(old, new) ==
  Len(old) <= Len(new) /\ SubSeq(new, 1, Len(old)) = old

\* The entries of new that follow its prefix old.
Added(old, new) == SubSeq(new, Len(old) + 1, Len(new))

OfType(txs, ty) == {k \in 1..Len(txs) : txs[k].type = ty}

\* txs holds exactly one entry of type ty, and its amount is amt.
OneEntry(txs, ty, amt) ==
  /\ Cardinality(OfType(txs, ty)) = 1
  /\ \A k \in OfType(txs, ty) : txs[k].amount = amt

\* Every account but those of the set keep is as it was.
OthersSame(old, new, keep) ==
  /\ DOMAIN new = DOMAIN old
  /\ \A k \in DOMAIN old \ keep : new[k] = old[k]

\* ---------------------------------------------------------------- C1
\* The inputs the claim is about: a logged-in source, a destination that is
\* in the store, an amount t with 0 < t <= source balance.
TransferCase(rawTo, rawAmt) ==
  /\ pc[1] = "menu"
  /\ Strip(rawTo) \in DOMAIN accounts[1]
  /\ ParseFloat(rawAmt).ok
  /\ FGt(ParseFloat(rawAmt).val, F(0))
  /\ FLe(ParseFloat(rawAmt).val, Bal(accounts[1], session[1]))

\* C1 as stated: whatever the destination (the source included), a
\* transfer of t leaves the source at its balance minus t, the destination
\* at its balance plus t, and adds exactly one Transfer Out entry to the
\* source ledger and one Transfer In entry to the destination ledger, both
\* of amount t.
C1_TransferAnyDestination ==
  [][\A rawTo \in RawIds, rawAmt \in RawAmounts :
       (TransferCase(rawTo, rawAmt) /\ Transfer(1, rawTo, rawAmt)) =>
         LET A == session[1]
             B == Strip(rawTo)
             t == ParseFloat(rawAmt).val
         IN  /\ Bal(accounts'[1], A) = FSub(Bal(accounts[1], A), t)
             /\ Bal(accounts'[1], B) = FAdd(Bal(accounts[1], B), t)
             /\ IsPrefix(Ledger(accounts[1], A), Ledger(accounts'[1], A))
             /\ IsPrefix(Ledger(accounts[1], B), Ledger(accounts'[1], B))
             /\ OneEntry(Added(Ledger(accounts[1], A),
                               Ledger(accounts'[1], A)), "Transfer Out", t)
             /\ OneEntry(Added(Ledger(accounts[1], B),
                               Ledger(accounts'[1], B)), "Transfer In", t)]_vars

\* C1 amended: to a destination other than the source, the source ends at
\* its balance minus t, the destination at its balance plus t, and each
\* ledger grows by exactly one entry (Transfer Out, Transfer In) of amount
\* t; to the source itself, the balance ends at (balance - t) + t and the
\* one ledger grows by a Transfer Out entry followed by a Transfer In entry,
\* both of amount t.  Minus and plus are those of the program's floats
\* (the -= and += of lines 112 and 113).
C1_TransferMovesAmount ==
  \A rawTo \in RawIds, rawAmt \in RawAmounts :
    TransferCase(rawTo, rawAmt) =>
      LET A == session[1]
          B == Strip(rawTo)
          t == ParseFloat(rawAmt).val
          r == transfer(accounts[1], A, rawTo, rawAmt)
          addedA == Added(Ledger(accounts[1], A), Ledger(r.accounts, A))
          addedB == Added(Ledger(accounts[1], B), Ledger(r.accounts, B))
      IN  /\ r.saved
          /\ IsPrefix(Ledger(accounts[1], A), Ledger(r.accounts, A))
          /\ IsPrefix(Ledger(accounts[1], B), Ledger(r.accounts, B))
          /\ IF B # A
               THEN /\ Bal(r.accounts, A) = FSub(Bal(accounts[1], A), t)
                    /\ Bal(r.accounts, B) = FAdd(Bal(accounts[1], B), t)
                    /\ Len(addedA) = 1
                    /\ addedA[1].type = "Transfer Out"
                    /\ addedA[1].amount = t
                    /\ Len(addedB) = 1
                    /\ addedB[1].type = "Transfer In"
                    /\ addedB[1].amount = t
               ELSE /\ Bal(r.accounts, A) =
                         FAdd(FSub(Bal(accounts[1], A), t), t)
                    /\ Len(addedA) = 2
                    /\ addedA[1].type = "Transfer Out"
                    /\ addedA[1].amount = t
                    /\ addedA[2].type = "Transfer In"
                    /\ addedA[2].amount = t

\* 1001 has transferred 3000 to 1002: 2000 and 6000 are left.
C1_Witness ==
  /\ last.op = "transfer"
  /\ last.saved
  /\ session[1] = Id1001
  /\ Bal(accounts[1], Id1001) = F(2000)
  /\ Bal(accounts[1], Id1002) = F(6000)
  /\ Len(Ledger(accounts[1], Id1001)) = 2
  /\ Ledger(accounts[1], Id1001)[2].type = "Transfer Out"
  /\ Ledger(accounts[1], Id1002)[2].type = "Transfer In"

\* ---------------------------------------------------------------- C2
\* C2: a deposit of d > 0 sets the balance to the previous balance plus d
\* (the float sum of line 74) and appends exactly one entry, of type
\* Deposit, with amount d and with the new balance as its balance.
C2_DepositAdds ==
  pc[1] = "menu" =>
    \A rawAmt \in RawAmounts :
      (ParseFloat(rawAmt).ok /\ FGt(ParseFloat(rawAmt).val, F(0))) =>
        LET A == session[1]
            d == ParseFloat(rawAmt).val
            r == deposit(accounts[1], A, rawAmt)
            old == Ledger(accounts[1], A)
            new == Ledger(r.accounts, A)
        IN  /\ r.saved
            /\ Bal(r.accounts, A) = FAdd(Bal(accounts[1], A), d)
            /\ Len(new) = Len(old) + 1
            /\ IsPrefix(old, new)
            /\ new[Len(new)].type = "Deposit"
            /\ new[Len(new)].amount = d
            /\ new[Len(new)].balance = Bal(r.accounts, A)

\* 1001 has deposited 0.1 twice on top of 5000: the first deposit left
\* 5000.1, the second 5000.200000000001, the double nearest to the sum.
C2_Witness ==
  LET tenth == ParseFloat(<<".", "1">>).val
      txs == Ledger(accounts[1], Id1001)
  IN  /\ last.op = "deposit"
      /\ last.saved
      /\ session[1] = Id1001
      /\ Len(txs) = 3
      /\ txs[2].type = "Deposit"
      /\ txs[2].amount = tenth
      /\ txs[2].balance =
           ParseFloat(<<"5", "0", "0", "0", ".", "1">>).val
      /\ txs[3].type = "Deposit"
      /\ txs[3].amount = tenth
      /\ txs[3].balance = Bal(accounts[1], Id1001)
      /\ Bal(accounts[1], Id1001) =
           ParseFloat(<<"5", "0", "0", "0", ".", "2", "0", "0", "0", "0",
                        "0", "0", "0", "0", "0", "0", "1">>).val
      /\ Bal(accounts[1], Id1001) #
           ParseFloat(<<"5", "0", "0", "0", ".", "2">>).val

\* ---------------------------------------------------------------- C3
\* C3 as stated: for every amount w the withdrawal succeeds exactly when
\* 0 < w <= balance, then leaving the balance minus w and one more
\* Withdrawal entry; when w > balance it fails with "Insufficient funds."
\* and changes neither the balance nor the ledger.
C3_WithdrawExactlyWhenCovered ==
  [][\A rawAmt \in RawAmounts :
       (pc[1] = "menu" /\ ParseFloat(rawAmt).ok /\ Withdraw(1, rawAmt)) =>
         LET A == session[1]
             w == ParseFloat(rawAmt).val
             old == Ledger(accounts[1], A)
             new == Ledger(accounts'[1], A)
             covered == FGt(w, F(0)) /\ FLe(w, Bal(accounts[1], A))
         IN  /\ (pc'[1] = "saving") <=> covered
             /\ covered =>
                  /\ Bal(accounts'[1], A) = FSub(Bal(accounts[1], A), w)
                  /\ Len(new) = Len(old) + 1
                  /\ IsPrefix(old, new)
                  /\ new[Len(new)].type = "Withdrawal"
             /\ FGt(w, Bal(accounts[1], A)) =>
                  /\ last'.msg = "Insufficient funds."
                  /\ Bal(accounts'[1], A) = Bal(accounts[1], A)
                  /\ new = old]_vars

\* ---------------------------------------------------------------- C4
\* C4: Create Account with an id that is in the store fails with "Account
\* already exists.", returns the dictionary as it was (the account of that
\* id and every other account) and does not write the file.
C4_CreateExistingFails ==
  pc[1] = "top" =>
    \A rawId \in RawIds, rawName \in RawNames, rawPin \in RawNewPins,
       rawInit \in RawInitials :
      Strip(rawId) \in DOMAIN accounts[1] =>
        LET r == create_account(accounts[1], Strip(rawId), Strip(rawName),
                                Strip(rawPin), ParseInitial(rawInit))
        IN  /\ ~r.ok
            /\ r.msg = "Account already exists."
            /\ ~r.saved
            /\ r.accounts = accounts[1]

\* A Create Account has just been refused, and 1001 is as the bootstrap
\* made it.
C4_Witness ==
  /\ last.op = "create"
  /\ last.msg = "Account already exists."
  /\ ~last.saved
  /\ Id1001 \in DOMAIN accounts[1]
  /\ accounts[1][Id1001].name = NameAlice
  /\ accounts[1][Id1001].pin = Pin1234
  /\ file.data = accounts[1]

\* ---------------------------------------------------------------- C5
\* A string of decimal digits, at least four of them.
StrongPin(s) ==
  /\ Len(s) >= 4
  /\ \A k \in 1..Len(s) :
       s[k] \in {"0", "1", "2", "3", "4", "5", "6", "7", "8", "9"}

\* C5 as stated: Change-PIN stores the new PIN and appends one PIN Change
\* entry of amount 0 when the current PIN matches, the new PIN equals the
\* confirmation and the new PIN is at least four digits; in every other
\* case the PIN and the ledger stay as they are.
C5_ChangePinOnlyWhenValid ==
  pc[1] = "menu" =>
    \A rawOld, rawNew, rawConfirm \in RawPins :
      LET A == session[1]
          r == change_pin(accounts[1], A, rawOld, rawNew, rawConfirm)
          old == Ledger(accounts[1], A)
          new == Ledger(r.accounts, A)
          valid == /\ Strip(rawOld) = accounts[1][A].pin
                   /\ Strip(rawNew) = Strip(rawConfirm)
                   /\ StrongPin(Strip(rawNew))
      IN  /\ r.ok <=> valid
          /\ IF valid
               THEN /\ r.accounts[A].pin = Strip(rawNew)
                    /\ Len(new) = Len(old) + 1
                    /\ IsPrefix(old, new)
                    /\ new[Len(new)].type = "PIN Change"
                    /\ new[Len(new)].amount = F(0)
               ELSE /\ r.accounts[A].pin = accounts[1][A].pin
                    /\ new = old

\* ---------------------------------------------------------------- C6
\* The result of a handler that changed nothing: the dictionary it was
\* given, and no save.
Untouched(r) == ~r.ok /\ ~r.saved /\ r.accounts = accounts[1]

\* C6 as stated: an operation that fails validation returns the dictionary
\* unchanged and does not save: Create with an id in the store; Deposit,
\* Withdraw, Transfer with an unparseable or non-positive amount; Withdraw,
\* Transfer above the balance; Transfer to an unknown destination;
\* Change-PIN with a wrong current PIN, a mismatched confirmation or a weak
\* PIN.  After a failed login the dictionary main reloads is the one it held.
C6_FailedValidationChangesNothing ==
  /\ pc[1] = "top" =>
       /\ \A rawId \in RawIds, rawName \in RawNames, rawPin \in RawNewPins,
             rawInit \in RawInitials :
            Strip(rawId) \in DOMAIN accounts[1] =>
              Untouched(create_account(accounts[1], Strip(rawId),
                                       Strip(rawName), Strip(rawPin),
                                       ParseInitial(rawInit)))
       /\ \A rawId \in RawIds, rawPin \in RawPins :
            (\/ Strip(rawId) \notin DOMAIN accounts[1]
             \/ Strip(rawPin) # accounts[1][Strip(rawId)].pin) =>
              /\ ~authenticate(accounts[1], rawId, rawPin).ok
              /\ load_accounts(file) = [ok |-> TRUE, accounts |-> accounts[1]]
  /\ pc[1] = "menu" =>
       LET A == session[1]
           BadAmount(raw) ==
             ~ParseFloat(raw).ok \/ FLe(ParseFloat(raw).val, F(0))
           Above(raw) ==
             ParseFloat(raw).ok /\ FGt(ParseFloat(raw).val, Bal(accounts[1], A))
       IN  /\ \A rawAmt \in RawAmounts :
                 /\ BadAmount(rawAmt) =>
                      Untouched(deposit(accounts[1], A, rawAmt))
                 /\ (BadAmount(rawAmt) \/ Above(rawAmt)) =>
                      Untouched(withdraw(accounts[1], A, rawAmt))
           /\ \A rawTo \in RawIds, rawAmt \in RawAmounts :
                 (\/ Strip(rawTo) \notin DOMAIN accounts[1]
                  \/ BadAmount(rawAmt)
                  \/ Above(rawAmt)) =>
                   Untouched(transfer(accounts[1], A, rawTo, rawAmt))
           /\ \A rawOld, rawNew, rawConfirm \in RawPins :
                 (\/ Strip(rawOld) # accounts[1][A].pin
                  \/ Strip(rawNew) # Strip(rawConfirm)
                  \/ ~StrongPin(Strip(rawNew))) =>
                   Untouched(change_pin(accounts[1], A, rawOld, rawNew,
                                        rawConfirm))

\* ---------------------------------------------------------------- C7
NonNegative(accts) == \A a \in DOMAIN accts : FLe(F(0), Bal(accts, a))

\* C7 as stated: in every reachable state every balance is >= 0.
C7_BalanceNonNegative == NonNegative(accounts[1])

\* ---------------------------------------------------------------- C8
\* C8 as stated: from a state where every balance is >= 0, every Withdraw
\* or Transfer step, successful or not, leads to a state where every
\* balance is >= 0.
C8_WithdrawTransferKeepNonNegative ==
  [][(/\ NonNegative(accounts[1])
      /\ last'.inst = 1
      /\ last'.op \in {"withdraw", "transfer"}) =>
       NonNegative(accounts'[1])]_vars

\* ---------------------------------------------------------------- C9
\* C9 as stated: in every reachable state every stored PIN is a string of
\* digits of length >= 4.
C9_PinAlwaysStrong ==
  \A a \in DOMAIN accounts[1] : StrongPin(accounts[1][a].pin)

\* --------------------------------------------------------------- C10
\* C10 as stated: a Login leads into the menu, as the typed account, exactly
\* when that account is in the store and the typed PIN is its PIN, whatever
\* id Create Account stored; inside a session the account never changes,
\* every action but the logout stays in the session, and the session is left
\* only by the logout, for the reload and main's menu.
C10_SessionStateMachine ==
  [][/\ \A rawId \in RawIds, rawPin \in RawPins :
          (pc[1] = "top" /\ Login(1, rawId, rawPin)) =>
            ((pc'[1] = "menu" /\ session'[1] = Strip(rawId)) <=>
               (/\ Strip(rawId) \in DOMAIN accounts[1]
                /\ Strip(rawPin) = accounts[1][Strip(rawId)].pin))
     /\ (session[1] # NoSession /\ session'[1] # NoSession) =>
          session'[1] = session[1]
     /\ (session[1] # NoSession /\ last'.op # "logout") =>
          (session'[1] # NoSession /\ pc'[1] \in {"menu", "saving"})
     /\ (session[1] # NoSession /\ session'[1] = NoSession) =>
          (last'.op = "logout" /\ pc'[1] = "reload")]_vars

\* --------------------------------------------------------------- C11
\* C11: across every step of the running instance (every operation,
\* successful or failed, and the reload after a login attempt or a session)
\* every account of the dictionary is still there after the step, and its
\* ledger after the step has its ledger before the step as a prefix.
C11_LedgersAppendOnly ==
  [][\A a \in DOMAIN accounts[1] :
       /\ a \in DOMAIN accounts'[1]
       /\ IsPrefix(Ledger(accounts[1], a), Ledger(accounts'[1], a))]_vars

\* After a session in which 1001 deposited and withdrew, the reload has
\* given back the ledger with its three entries in the order they were
\* appended.
C11_Witness ==
  /\ last.op = "reload"
  /\ pc[1] = "top"
  /\ Id1001 \in DOMAIN accounts[1]
  /\ Len(Ledger(accounts[1], Id1001)) = 3
  /\ Ledger(accounts[1], Id1001)[1].type = "Account Created"
  /\ Ledger(accounts[1], Id1001)[2].type = "Deposit"
  /\ Ledger(accounts[1], Id1001)[3].type = "Withdrawal"

\* --------------------------------------------------------------- C12
\* The entries a step has appended to account a's ledger are the entries of
\* the one operation that ran: a Deposit entry, a Withdrawal entry, and for
\* a transfer the Transfer Out entry of the source and the Transfer In
\* entry of the destination (the two of them, in that order, on an account
\* that is both).
EntriesOfOperation(op, a, source, added) ==
  CASE op = "deposit" ->
         Len(added) = 1 /\ added[1].type = "Deposit"
    [] op = "withdraw" ->
         Len(added) = 1 /\ added[1].type = "Withdrawal"
    [] op = "transfer" ->
         IF a # source
           THEN Len(added) = 1 /\ added[1].type = "Transfer In"
           ELSE \/ Len(added) = 1 /\ added[1].type = "Transfer Out"
                \/ /\ Len(added) = 2
                   /\ added[1].type = "Transfer Out"
                   /\ added[2].type = "Transfer In"
    [] OTHER -> FALSE

\* C12: a step that changes the balance of an account appends, in that
\* same step, the ledger entry of the operation to that account (a transfer
\* one entry for the source and one for the destination), and only then
\* opens the file; the dump that follows writes the dictionary with the
\* entry in it; and whenever the file holds a dump, the dump is the
\* dictionary in memory, so that no content of the file has a balance
\* without its entry.
C12_BalanceChangeHasEntry ==
  /\ [][\A a \in DOMAIN accounts[1] :
          Bal(accounts'[1], a) # Bal(accounts[1], a) =>
            /\ IsPrefix(Ledger(accounts[1], a), Ledger(accounts'[1], a))
            /\ EntriesOfOperation(last'.op, a, session[1],
                                  Added(Ledger(accounts[1], a),
                                        Ledger(accounts'[1], a)))
            /\ pc'[1] = "saving"
            /\ file' = Truncated]_vars
  /\ [][last'.saved =>
          (file' = save_accounts(accounts[1]) /\ accounts' = accounts)]_vars
  /\ [](file.text = "whole" => file.data = accounts[1])

\* 1001 has just withdrawn 3000: the file holds the balance 2000 together
\* with the Withdrawal entry.
C12_Witness ==
  /\ last.op = "withdraw"
  /\ last.saved
  /\ session[1] = Id1001
  /\ file.exists
  /\ Bal(file.data, Id1001) = F(2000)
  /\ Len(Ledger(file.data, Id1001)) = 2
  /\ Ledger(file.data, Id1001)[2].type = "Withdrawal"
  /\ Ledger(file.data, Id1001)[2].amount = F(3000)

\* --------------------------------------------------------------- C13
\* The last n entries of txs, in the order of txs.
LastEntries(txs, n) == SubSeq(txs, Len(txs) - n + 1, Len(txs))

Min(a, b) == IF a <= b THEN a ELSE b

\* C13 as stated: called with any limit N >= 0 on a ledger of any length L,
\* mini_statement prints exactly the last min(N, L) entries in ledger
\* order, prints the empty-result message exactly when the ledger has no
\* entries, and leaves the dictionary and the file as they are.
C13_MiniStatementLastN ==
  [][\A N \in Limits :
       MiniStatementLimit(1, N) =>
         LET txs == Ledger(accounts[1], session[1])
         IN  /\ last'.out = LastEntries(txs, Min(N, Len(txs)))
             /\ (last'.msg = "No transactions yet.") <=> (txs = <<>>)
             /\ accounts' = accounts
             /\ file' = file]_vars

\* --------------------------------------------------------------- C14
\* C14: with two instances on one file, the dump a successful operation
\* writes is the writer's own dictionary, whatever the file held before the
\* writer opened it: the account the writer works on as the operation left
\* it, and every other account as the writer's dictionary had it before the
\* operation (the file holds that dump afterwards, unless the dump ran over
\* the longer text of a writer that opened the file later).  (The
\* interleaving of the claim, in which the update of the other instance is
\* lost, is C14_Witness.)
C14_LastWriterWins ==
  [][\A i \in Instances :
       /\ (last'.inst = i /\ last'.saved) =>
            /\ accounts' = accounts
            /\ \/ file' = save_accounts(accounts[i])
               \/ /\ file.text = "whole"
                  /\ JsonLen(file.data) > JsonLen(accounts[i])
                  /\ file'.text = "broken"
       /\ (pc[i] = "menu" /\ pc'[i] = "saving") =>
            \A a \in DOMAIN accounts[i] \ {session[i]} :
              /\ a \in DOMAIN accounts'[i]
              /\ accounts'[i][a] = accounts[i][a]]_vars

\* Instance 1 has deposited 3000 to 1001 (its dictionary holds the balance
\* 8000 and the Deposit entry, as the file did after its save); instance 2,
\* started before that, has then deposited 3000 to 1002.  The file is the
\* dictionary of instance 2: 1002 with its deposit, and 1001 at 5000 with
\* the Account Created entry alone.
C14_Witness ==
  /\ last.inst = 2
  /\ last.op = "deposit"
  /\ last.saved
  /\ session[1] = Id1001
  /\ session[2] = Id1002
  /\ Bal(accounts[1], Id1001) = F(8000)
  /\ Len(Ledger(accounts[1], Id1001)) = 2
  /\ Ledger(accounts[1], Id1001)[2].type = "Deposit"
  /\ file = save_accounts(accounts[2])
  /\ Bal(file.data, Id1002) = F(6000)
  /\ Ledger(file.data, Id1002)[2].type = "Deposit"
  /\ Bal(file.data, Id1001) = F(5000)
  /\ Len(Ledger(file.data, Id1001)) = 1

\* --------------------------------------------------------------- C15
\* C15: with one instance, whenever the program waits at main's menu or at
\* the ATM menu (and when it is about to reload), the dictionary in memory
\* is what load_accounts reads from the file (the empty dictionary when
\* there is no file); and the reload after a login attempt or after a
\* session leaves the dictionary as it was.
C15_MemoryEqualsSnapshot ==
  /\ [](pc[1] \in {"top", "menu", "reload"} =>
          load_accounts(file) = [ok |-> TRUE, accounts |-> accounts[1]])
  /\ [][last'.op \in {"login", "logout", "reload"} =>
          (accounts'[1] = accounts[1] /\ pc'[1] # "crashed")]_vars

\* After a session in which 1001 deposited 3000, main has reloaded: the
\* dictionary is the one with the deposit.
C15_Witness ==
  /\ last.op = "reload"
  /\ pc[1] = "top"
  /\ Id1001 \in DOMAIN accounts[1]
  /\ Bal(accounts[1], Id1001) = F(8000)
  /\ load_accounts(file).accounts = accounts[1]

\* --------------------------------------------------------------- C16
\* The amounts, in ledger order, of the entries of account a that have the
\* type ty and the remark rem.
LegAmounts(accts, a, ty, rem) ==
  LET legs == SelectSeq(Ledger(accts, a),
                        LAMBDA e : e.type = ty /\ e.remark = rem)
  IN  [k \in 1..Len(legs) |-> legs[k].amount]

\* C16: in every content of the file, the Transfer Out entries of any
\* account a towards any account b are matched, one for one and amount for
\* amount, by the Transfer In entries of b from a; a transfer has debited
\* the source and credited the destination by the amount of its Transfer
\* Out entry (debited and credited both, when the two are one account)
\* before it opens the file; and its one dump writes the dictionary so
\* changed.
C16_TransferBothLegs ==
  /\ [](\A a, b \in DOMAIN file.data :
          LegAmounts(file.data, a, "Transfer Out", RemarkTo(b)) =
            LegAmounts(file.data, b, "Transfer In", RemarkFrom(a)))
  /\ [][(last'.op = "transfer" /\ pc'[1] = "saving") =>
          LET A == session[1]
              old == accounts[1]
              new == accounts'[1]
              out == Added(Ledger(old, A), Ledger(new, A))[1]
              t == out.amount
          IN  /\ file' = Truncated
              /\ out.type = "Transfer Out"
              /\ \E B \in DOMAIN old : out.remark = RemarkTo(B)
              /\ \A B \in DOMAIN old :
                   out.remark = RemarkTo(B) =>
                     IF B # A
                       THEN /\ Bal(new, A) = FSub(Bal(old, A), t)
                            /\ Bal(new, B) = FAdd(Bal(old, B), t)
                       ELSE Bal(new, A) = FAdd(FSub(Bal(old, A), t), t)]_vars
  /\ [][(last'.op = "transfer" /\ last'.saved) =>
          (file' = save_accounts(accounts[1]) /\ accounts' = accounts)]_vars

\* 1002 has transferred 3000 to 1001: the file holds 0 and 8000, the
\* Transfer Out entry of 1002 and the Transfer In entry of 1001.
C16_Witness ==
  /\ last.op = "transfer"
  /\ last.saved
  /\ session[1] = Id1002
  /\ file.exists
  /\ Bal(file.data, Id1002) = F(0)
  /\ Bal(file.data, Id1001) = F(8000)
  /\ LegAmounts(file.data, Id1002, "Transfer Out", RemarkTo(Id1001)) =
       <<F(3000)>>
  /\ LegAmounts(file.data, Id1001, "Transfer In", RemarkFrom(Id1002)) =
       <<F(3000)>>

\* --------------------------------------------------------------- C17
\* The sum of two floats as numbers, not rounded to a double.
Sum(a, b) ==
  IF a.nan \/ b.nan \/ a.inf \/ b.inf THEN FAdd(a, b) ELSE XAdd(a, b)

\* The sum of the balances of the accounts ids of a dictionary.
RECURSIVE SumBalances(_, _)
SumBalances(accts, ids) ==
  IF ids = {} THEN F(0)
  ELSE LET a == CHOOSE x \in ids : TRUE
       IN  Sum(Bal(accts, a), SumBalances(accts, ids \ {a}))

TotalBalance(accts) == SumBalances(accts, DOMAIN accts)

\* What the entries of a ledger say came in from outside: the initial
\* balance of the Account Created entry, plus the deposits, minus the
\* withdrawals.
RECURSIVE NetFlow(_)
NetFlow(txs) ==
  IF txs = <<>> THEN F(0)
  ELSE LET e == txs[Len(txs)]
           before == NetFlow(SubSeq(txs, 1, Len(txs) - 1))
       IN  CASE e.type = "Account Created" -> Sum(before, e.balance)
             [] e.type = "Deposit" -> Sum(before, e.amount)
             [] e.type = "Withdrawal" -> Sum(before, FNeg(e.amount))
             [] OTHER -> before

RECURSIVE SumNetFlow(_, _)
SumNetFlow(accts, ids) ==
  IF ids = {} THEN F(0)
  ELSE LET a == CHOOSE x \in ids : TRUE
       IN  Sum(NetFlow(Ledger(accts, a)), SumNetFlow(accts, ids \ {a}))

\* C17 as stated: every transfer step, successful or failed, whatever the
\* destination and the amount typed, leaves the sum of all balances as it
\* was; and in every state the sum of all balances is the sum of the
\* initial balances plus the deposits minus the withdrawals made.  The sums
\* are those of the numbers the floats stand for.
C17_MoneyConserved ==
  /\ [][last'.op = "transfer" =>
          TotalBalance(accounts'[1]) = TotalBalance(accounts[1])]_vars
  /\ [](TotalBalance(accounts[1]) =
          SumNetFlow(accounts[1], DOMAIN accounts[1]))

\* --------------------------------------------------------------- C18
\* The balance an entry must record, given the balance prev recorded by the
\* entry before it: the float the program computes from prev (lines 74, 91,
\* 112, 113).
BalanceAfter(prev, e) ==
  CASE e.type \in {"Deposit", "Transfer In"} -> FAdd(prev, e.amount)
    [] e.type \in {"Withdrawal", "Transfer Out"} -> FSub(prev, e.amount)
    [] OTHER -> prev

ChainConsistent(txs) ==
  /\ txs # <<>>
  /\ txs[1].type = "Account Created"
  /\ \A k \in 2..Len(txs) :
       /\ txs[k].type # "Account Created"
       /\ txs[k].balance = BalanceAfter(txs[k - 1].balance, txs[k])

\* C18 as stated: in every reachable state the ledger of every account
\* starts with the Account Created entry, and every later entry records the
\* balance recorded by the entry before it plus its amount (Deposit,
\* Transfer In), minus its amount (Withdrawal, Transfer Out) or unchanged
\* (PIN Change), whatever the destinations of the transfers made.
C18_LedgerChain ==
  \A a \in DOMAIN accounts[1] : ChainConsistent(Ledger(accounts[1], a))

\* --------------------------------------------------------------- C19
\* C19: in every reachable state the ledger of every account is not empty,
\* its first entry is the Account Created entry, of amount 0, and its last
\* entry records the balance the account has.
C19_LedgerAnchored ==
  \A a \in DOMAIN accounts[1] :
    LET txs == Ledger(accounts[1], a)
    IN  /\ Len(txs) >= 1
        /\ txs[1].type = "Account Created"
        /\ txs[1].amount = F(0)
        /\ txs[Len(txs)].balance = Bal(accounts[1], a)

\* Account 7 has just been created, after a session in which 1001 withdrew
\* 3000: the one entry of 7 records its balance, the last entry of 1001
\* records 2000.
C19_Witness ==
  /\ last.op = "create"
  /\ last.saved
  /\ <<"7">> \in DOMAIN accounts[1]
  /\ Len(Ledger(accounts[1], <<"7">>)) = 1
  /\ Ledger(accounts[1], <<"7">>)[1].balance = Bal(accounts[1], <<"7">>)
  /\ Len(Ledger(accounts[1], Id1001)) = 2
  /\ Ledger(accounts[1], Id1001)[2].type = "Withdrawal"
  /\ Ledger(accounts[1], Id1001)[2].balance = F(2000)
  /\ Bal(accounts[1], Id1001) = F(2000)

\* --------------------------------------------------------------- C20
\* C20: while logged in as A, Deposit and Withdraw change at most A's
\* balance and ledger; Change-PIN changes at most A's PIN and ledger;
\* Transfer changes at most the balances and ledgers of A and of the
\* destination typed; each of them leaves the set of account ids as it is.
\* Check Balance and Mini Statement change neither the dictionary nor the
\* file.  No step removes an account id, and only Create Account (typed, or
\* run by main for the demo accounts on an empty store) adds one.
C20_SessionFrame ==
  /\ [](pc[1] = "menu" =>
          LET A == session[1]
              old == accounts[1]
              SamePerson(new, a) == /\ new[a].name = old[a].name
                                    /\ new[a].pin = old[a].pin
          IN  /\ \A rawAmt \in RawAmounts :
                   LET d == deposit(old, A, rawAmt).accounts
                       w == withdraw(old, A, rawAmt).accounts
                   IN  /\ OthersSame(old, d, {A}) /\ SamePerson(d, A)
                       /\ OthersSame(old, w, {A}) /\ SamePerson(w, A)
              /\ \A rawOld, rawNew, rawConfirm \in RawPins :
                   LET c == change_pin(old, A, rawOld, rawNew,
                                       rawConfirm).accounts
                   IN  /\ OthersSame(old, c, {A})
                       /\ c[A].name = old[A].name
                       /\ c[A].balance = old[A].balance
              /\ \A rawTo \in RawIds, rawAmt \in RawAmounts :
                   LET t == transfer(old, A, rawTo, rawAmt).accounts
                   IN  /\ OthersSame(old, t, {A, Strip(rawTo)})
                       /\ \A a \in DOMAIN old : SamePerson(t, a))
  /\ [][/\ DOMAIN accounts[1] \subseteq DOMAIN accounts'[1]
        /\ DOMAIN accounts'[1] # DOMAIN accounts[1] =>
             last'.op \in {"create", "demo1", "demo2"}
        /\ last'.op \in {"check_balance", "mini_statement"} =>
             (accounts' = accounts /\ file' = file)]_vars

\* 1002 has withdrawn its 3000: it is still Bob with PIN 2345, 1001 is as
\* the bootstrap made it, and the ids are the two demo ids.
C20_Witness ==
  /\ last.op = "withdraw"
  /\ last.saved
  /\ session[1] = Id1002
  /\ DOMAIN accounts[1] = {Id1001, Id1002}
  /\ Bal(accounts[1], Id1002) = F(0)
  /\ accounts[1][Id1002].name = NameBob
  /\ accounts[1][Id1002].pin = Pin2345
  /\ accounts[1][Id1001] =
       create_account(EmptyAccounts, Id1001, NameAlice, Pin1234,
                      F(5000)).accounts[Id1001]

====
